---- MODULE Spec2Model ----
(***************************************************************************)
(* mail-cannon: batch warehouse-order creator (src/mail_cannon.py).        *)
(*                                                                         *)
(* Two specifications over one set of variables:                           *)
(*   Spec     the run() pipeline: read CSV -> validate all rows ->         *)
(*            (dry-run report | send loop -> summary) -> exit;             *)
(*   SpecRow  validate_row and build_order_payload applied to one row      *)
(*            drawn from a bounded set of rows.                            *)
(*                                                                         *)
(* A text (Python str) is a sequence of one-character strings; None is a   *)
(* distinguished value that is no text.                                    *)
(***************************************************************************)
EXTENDS Integers, Sequences, FiniteSets, TLC

VARIABLES
    \* ---- run() ----
    pc,          \* position in run(): start, rows_read, dry_run, sending, done
    file,        \* the CSV data records in file order (the header is file row 1)
    dry_run,     \* the --dry-run flag
    rows,        \* run(): rows, the list read_orders_csv returned
    all_errors,  \* run(): all_errors
    idx,         \* run(): the enumerate(rows, start=2) index of the next iteration
    succeeded,   \* run(): succeeded
    failed,      \* run(): failed
    results,     \* run(): results
    requests,    \* payloads handed to urlopen, in order (the network)
    log,         \* lines given to the logger, in order
    summaries,   \* results files written, in order (the filesystem)
    exit_kind,   \* how the process ended: none, return, SystemExit, Traceback
    \* ---- one row (SpecRow) ----
    row,         \* the row under test
    row_num,     \* the row number passed to validate_row
    errors,      \* what validate_row returned
    built,       \* what build_order_payload did
    fpc          \* position in SpecRow: start, validated, built

runVars == <<pc, file, dry_run, rows, all_errors, idx, succeeded, failed,
             results, requests, log, summaries, exit_kind>>
rowVars == <<row, row_num, errors, built, fpc>>
vars == <<pc, file, dry_run, rows, all_errors, idx, succeeded, failed,
          results, requests, log, summaries, exit_kind,
          row, row_num, errors, built, fpc>>

(***************************************************************************)
(* Bounds of the model.                                                    *)
(***************************************************************************)
\* Number of configured SKUs (load_config demands 12; the loops over
\* sku_names are uniform in the length).
NumSkus == 2
\* Longest CSV file, in data records.
MaxRows == 3

(***************************************************************************)
(* Constants of the program.                                               *)
(***************************************************************************)
ADDRESS_COLUMNS ==
    <<"first_name", "last_name", "email", "line_1", "line_2",
      "city", "state", "postal_code", "country">>

REQUIRED_ADDRESS_COLUMNS ==
    <<"first_name", "email", "line_1", "city", "state", "postal_code", "country">>

\* enumerate(rows, start=2): row 1 is the header
FirstRowNum == 2

SkuPool == <<"sku_a", "sku_b", "sku_c", "sku_d">>
\* config["skus"]
SkuNames == SubSeq(SkuPool, 1, NumSkus)
\* config["tags"]
Tags == <<"mail-cannon">>

Range(s) == {s[i] : i \in 1..Len(s)}

(***************************************************************************)
(* Python values and str operations.                                       *)
(***************************************************************************)
None == <<"None">>

Digits == {"0", "1", "2", "3", "4", "5", "6", "7", "8", "9"}

DigitVal(c) ==
    CASE c = "0" -> 0 [] c = "1" -> 1 [] c = "2" -> 2 [] c = "3" -> 3
      [] c = "4" -> 4 [] c = "5" -> 5 [] c = "6" -> 6 [] c = "7" -> 7
      [] c = "8" -> 8 [] c = "9" -> 9

IsSpace(c) == c = " "

\* bool(v) of a str-or-None value
Truthy(v) == v # None /\ v # <<>>

\* (v or "")
OrEmpty(v) == IF Truthy(v) THEN v ELSE <<>>

RECURSIVE LStrip(_)
LStrip(s) ==
    IF s = <<>> THEN s
    ELSE IF IsSpace(Head(s)) THEN LStrip(Tail(s)) ELSE s

RECURSIVE RStrip(_)
RStrip(s) ==
    IF s = <<>> THEN s
    ELSE IF IsSpace(s[Len(s)]) THEN RStrip(SubSeq(s, 1, Len(s) - 1)) ELSE s

\* str.strip()
Strip(s) == RStrip(LStrip(s))

\* The digits of an int() literal once whitespace and the sign are removed.
IntBody(s) ==
    LET t == Strip(s)
    IN  IF t # <<>> /\ Head(t) \in {"-", "+"} THEN Tail(t) ELSE t

\* int(s) does not raise ValueError: optional surrounding whitespace, an
\* optional sign, then one or more digits.
IsInt(s) ==
    LET b == IntBody(s)
    IN  b # <<>> /\ \A i \in 1..Len(b) : b[i] \in Digits

RECURSIVE DigitsVal(_)
DigitsVal(b) ==
    IF b = <<>> THEN 0
    ELSE 10 * DigitsVal(SubSeq(b, 1, Len(b) - 1)) + DigitVal(b[Len(b)])

\* int(s), for s with IsInt(s)
IntVal(s) ==
    LET t == Strip(s)
    IN  IF Head(t) = "-" THEN 0 - DigitsVal(IntBody(s)) ELSE DigitsVal(IntBody(s))

\* row.get(col): csv.DictReader gives every header column a key, with None
\* for the cells a short record lacks.
RowGet(r, col) == IF col \in DOMAIN r THEN r[col] ELSE None

(***************************************************************************)
(* validate_row                                                            *)
(***************************************************************************)
NoText == <<>>

MissingError(n, col) == [row |-> n, kind |-> "missing", col |-> col, raw |-> NoText]
NegativeError(n, sku) == [row |-> n, kind |-> "negative", col |-> sku, raw |-> NoText]
NonIntError(n, sku, raw) == [row |-> n, kind |-> "nonint", col |-> sku, raw |-> raw]
NoItemsError(n) == [row |-> n, kind |-> "noitems", col |-> "", raw |-> NoText]

\* if not (row.get(col) or "").strip()
FieldBlank(r, col) == ~Truthy(Strip(OrEmpty(RowGet(r, col))))

\* Variant of RequiredErrors that stops at the first blank field.
RECURSIVE RequiredErrorsFirstOnly(_, _, _)
RequiredErrorsFirstOnly(r, n, i) ==
    IF i > Len(REQUIRED_ADDRESS_COLUMNS) THEN <<>>
    ELSE IF FieldBlank(r, REQUIRED_ADDRESS_COLUMNS[i])
         THEN <<MissingError(n, REQUIRED_ADDRESS_COLUMNS[i])>>
         ELSE RequiredErrorsFirstOnly(r, n, i + 1)

\* The loop over REQUIRED_ADDRESS_COLUMNS, from column i on.
RECURSIVE RequiredErrors(_, _, _)
RequiredErrors(r, n, i) ==
    IF i > Len(REQUIRED_ADDRESS_COLUMNS) THEN <<>>
    ELSE (IF FieldBlank(r, REQUIRED_ADDRESS_COLUMNS[i])
             THEN <<MissingError(n, REQUIRED_ADDRESS_COLUMNS[i])>>
             ELSE <<>>)
         \o RequiredErrors(r, n, i + 1)

\* Variant of SkuCellErrors that tests qty <= 0 where the code tests qty < 0.
SkuCellErrorsZeroIsNegative(r, n, sku) ==
    LET raw == Strip(OrEmpty(RowGet(r, sku)))
    IN  IF ~Truthy(raw) THEN <<>>
        ELSE IF ~IsInt(raw) THEN <<NonIntError(n, sku, raw)>>
        ELSE IF IntVal(raw) <= 0 THEN <<NegativeError(n, sku)>>
        ELSE <<>>

\* One iteration of the loop over sku_names: the errors it appends.
SkuCellErrors(r, n, sku) ==
    LET raw == Strip(OrEmpty(RowGet(r, sku)))
    IN  IF ~Truthy(raw) THEN <<>>
        ELSE IF ~IsInt(raw) THEN <<NonIntError(n, sku, raw)>>
        ELSE IF IntVal(raw) < 0 THEN <<NegativeError(n, sku)>>
        ELSE <<>>

\* One iteration of the loop over sku_names: whether it sets has_items.
SkuCellHasItems(r, sku) ==
    LET raw == Strip(OrEmpty(RowGet(r, sku)))
    IN  Truthy(raw) /\ IsInt(raw) /\ IntVal(raw) > 0

\* The loop over sku_names, from SKU i on, with the has_items seen so far.
RECURSIVE SkuScan(_, _, _, _, _)
SkuScan(r, n, sku_names, i, has_items) ==
    IF i > Len(sku_names)
    THEN (IF has_items THEN <<>> ELSE <<NoItemsError(n)>>)
    ELSE SkuCellErrors(r, n, sku_names[i])
         \o SkuScan(r, n, sku_names, i + 1,
                    has_items \/ SkuCellHasItems(r, sku_names[i]))

validate_row(r, n, sku_names) ==
    RequiredErrors(r, n, 1) \o SkuScan(r, n, sku_names, 1, FALSE)

(***************************************************************************)
(* build_order_payload                                                     *)
(***************************************************************************)
\* int(row[sku] or 0) raises ValueError
QtyRaises(r, sku) == Truthy(r[sku]) /\ ~IsInt(r[sku])

\* int(row[sku] or 0)
Qty(r, sku) == IF Truthy(r[sku]) THEN IntVal(r[sku]) ELSE 0

\* Variant of Contents that tests qty >= 0 where the code tests qty > 0.
RECURSIVE ContentsKeepZero(_, _, _)
ContentsKeepZero(r, sku_names, i) ==
    IF i > Len(sku_names) THEN <<>>
    ELSE (IF Qty(r, sku_names[i]) >= 0
             THEN <<[sku |-> sku_names[i], quantity |-> Qty(r, sku_names[i])]>>
             ELSE <<>>)
         \o ContentsKeepZero(r, sku_names, i + 1)

\* The contents loop from SKU i on (no cell raising).
RECURSIVE Contents(_, _, _)
Contents(r, sku_names, i) ==
    IF i > Len(sku_names) THEN <<>>
    ELSE (IF Qty(r, sku_names[i]) > 0
             THEN <<[sku |-> sku_names[i], quantity |-> Qty(r, sku_names[i])]>>
             ELSE <<>>)
         \o Contents(r, sku_names, i + 1)

\* Columns read as row[col].strip(): a None cell raises AttributeError.
StrippedColumns ==
    <<"email", "first_name", "line_1", "city", "state", "postal_code", "country">>

\* Optional address keys, deleted from the payload when blank.
OptionalAddressKeys == {"last_name", "line_2"}

AddressKeys(r) ==
    (Range(StrippedColumns) \ {"email"})
    \cup {k \in OptionalAddressKeys : Truthy(Strip(OrEmpty(RowGet(r, k))))}

Address(r) == [k \in AddressKeys(r) |-> Strip(OrEmpty(RowGet(r, k)))]

NoPayload == [warehouse_order |-> [recipient_email |-> NoText, tags |-> <<>>],
              address |-> <<>>, contents |-> <<>>]

\* The outcome of build_order_payload: exc is "" and payload the returned
\* dict, or exc is the exception raised.
build_order_payload(r, sku_names, tags) ==
    IF \E i \in 1..Len(sku_names) : QtyRaises(r, sku_names[i])
    THEN [exc |-> "ValueError", payload |-> NoPayload]
    ELSE IF \E i \in 1..Len(StrippedColumns) : r[StrippedColumns[i]] = None
    THEN [exc |-> "AttributeError", payload |-> NoPayload]
    ELSE [exc |-> "",
          payload |-> [warehouse_order |-> [recipient_email |-> Strip(r["email"]),
                                            tags |-> tags],
                       address |-> Address(r),
                       contents |-> Contents(r, sku_names, 1)]]

(***************************************************************************)
(* read_orders_csv                                                         *)
(***************************************************************************)
\* if (r.get("email") or "").strip()
KeepRecord(r) == Truthy(Strip(OrEmpty(RowGet(r, "email"))))

\* rows = [r for r in reader if ...]; the header is taken to hold every
\* expected column.
read_orders_csv(f) == SelectSeq(f, KeepRecord)

(***************************************************************************)
(* Inputs: rows and files.                                                 *)
(***************************************************************************)
RequiredSet == Range(REQUIRED_ADDRESS_COLUMNS)
SkuSet == Range(SkuNames)
AllColumns == Range(ADDRESS_COLUMNS) \cup SkuSet

\* A DictReader record from its required, optional and SKU cells.
MkRow(req, opt, cells) ==
    [c \in AllColumns |->
        IF c \in RequiredSet THEN req[c]
        ELSE IF c \in OptionalAddressKeys THEN opt[c]
        ELSE cells[c]]

\* SKU cells: t in the first SKU column, rest in the others.
FirstSku(t, rest) == [c \in SkuSet |-> IF c = SkuNames[1] THEN t ELSE rest]
\* Required cells: the given email, the other fields populated.
WithEmail(e) == [c \in RequiredSet |-> IF c = "email" THEN e ELSE <<"a">>]

ReqTexts == {None, <<>>, <<" ">>, <<" ", "a">>}
OptTexts == {None, <<>>, <<" ">>, <<" ", "b">>}
CellTexts == {None, <<>>, <<" ">>, <<"0">>, <<"2">>, <<" ", "1", " ">>,
              <<"-", "1">>, <<"x">>, <<"1", "0">>}

AllPopulated == [c \in RequiredSet |-> <<"a", " ">>]
NoOptional == [c \in OptionalAddressKeys |-> <<>>]

\* Rows that vary the required address fields.
RequiredFieldRows ==
    {MkRow(req, NoOptional, FirstSku(t, <<>>)) :
        req \in [RequiredSet -> ReqTexts],
        t \in {<<"1">>, <<"-", "1">>}}

\* Rows that vary the optional address fields and the SKU cells.
QuantityRows ==
    {MkRow(AllPopulated, opt, cells) :
        opt \in [OptionalAddressKeys -> OptTexts],
        cells \in [SkuSet -> CellTexts]}

RowInputs == RequiredFieldRows \cup QuantityRows
RowNums == {FirstRowNum, FirstRowNum + 1}


\* One order line.
RecA == MkRow(WithEmail(<<"a">>), NoOptional, FirstSku(<<"3">>, <<>>))
\* One order line per SKU, optional fields given, email to be trimmed.
RecB == MkRow(WithEmail(<<" ", "b">>),
              [c \in OptionalAddressKeys |-> <<"b">>],
              FirstSku(<<"1">>, <<" ", "2">>))
\* A blank line of the sheet: whitespace email.
RecBlank == MkRow([c \in RequiredSet |-> IF c = "email" THEN <<" ">> ELSE <<>>],
                  NoOptional, [c \in SkuSet |-> <<>>])
\* city left empty.
RecNoCity == MkRow([c \in RequiredSet |->
                       IF c = "city" THEN <<>> ELSE <<"c">>],
                   NoOptional, FirstSku(<<"1">>, <<>>))
\* A whitespace-only SKU cell beside a positive one.
RecSpaceQty == MkRow(WithEmail(<<"d">>), NoOptional, FirstSku(<<"1">>, <<" ">>))
\* A negative quantity.
RecNegative == MkRow(WithEmail(<<"e">>), NoOptional, FirstSku(<<"-", "1">>, <<>>))

FileRecords == {RecA, RecB, RecBlank, RecNoCity, RecSpaceQty, RecNegative}

Files == UNION {[1..n -> FileRecords] : n \in 0..MaxRows}

(***************************************************************************)
(* create_order: what the call does, as run() sees it.                     *)
(***************************************************************************)
EmptyDict == [k \in {} |-> ""]

Outcomes ==
    << \* urlopen answers 2xx with a JSON object
       [kind |-> "ok", body |-> [id |-> "ord_1"]],
       [kind |-> "ok", body |-> [hc_id |-> "hc_1"]],
       \* empty response body: {}
       [kind |-> "ok", body |-> EmptyDict],
       \* urlopen raises HTTPError; exc.read() is JSON or is not
       [kind |-> "HTTPError", code |-> 422, json |-> TRUE,
        body |-> [error |-> "bad address"]],
       [kind |-> "HTTPError", code |-> 500, json |-> FALSE,
        body |-> [raw |-> "HTTP Error 500: Internal Server Error"]],
       \* urlopen raises URLError (DNS, refused or timed-out connection)
       [kind |-> "URLError", reason |-> "timed out"],
       \* the server does not answer in time, or resp.read() times out:
       \* TimeoutError, which is no URLError
       [kind |-> "raise", exc |-> "TimeoutError"],
       \* json.loads(resp_bytes) on a body that is not JSON
       [kind |-> "raise", exc |-> "JSONDecodeError"] >>

\* body.get(k), with "" for None
DictGet(d, k) == IF k \in DOMAIN d THEN d[k] ELSE ""

\* resp_body.get("id") or resp_body.get("hc_id") or "unknown"
OrderId(body) ==
    IF DictGet(body, "id") # "" THEN DictGet(body, "id")
    ELSE IF DictGet(body, "hc_id") # "" THEN DictGet(body, "hc_id")
    ELSE "unknown"

\* Whether run()'s try statement handles the outcome of create_order.
Handled(o) == o.kind \in {"ok", "HTTPError", "URLError"}

\* The dict appended to results for a handled outcome.
RunResult(i, email, o) ==
    CASE o.kind = "ok" ->
            [row |-> i, email |-> email, status |-> "success",
             order_id |-> OrderId(o.body), response |-> o.body]
      [] o.kind = "HTTPError" ->
            [row |-> i, email |-> email, status |-> "failed",
             http_status |-> o.code, error |-> o.body]
      [] o.kind = "URLError" ->
            [row |-> i, email |-> email, status |-> "failed",
             error |-> o.reason]

\* succeeded += 1
SucceededAfter(n, o) == IF o.kind = "ok" THEN n + 1 ELSE n

\* Variant of FailedAfter whose URLError handler forgets failed += 1.
FailedAfterHttpOnly(n, o) == IF o.kind = "HTTPError" THEN n + 1 ELSE n

\* failed += 1
FailedAfter(n, o) == IF o.kind \in {"HTTPError", "URLError"} THEN n + 1 ELSE n

\* The result line logged for a handled outcome.
ResultLine(i, email, o) ==
    CASE o.kind = "ok" ->
            [level |-> "INFO", tag |-> "SUCCESS", row |-> i, email |-> email,
             order_id |-> OrderId(o.body)]
      [] o.kind = "HTTPError" ->
            [level |-> "ERROR", tag |-> "FAILED", row |-> i, email |-> email,
             http_status |-> o.code, error |-> o.body]
      [] o.kind = "URLError" ->
            [level |-> "ERROR", tag |-> "FAILED", row |-> i, email |-> email,
             error |-> o.reason]

(***************************************************************************)
(* run()                                                                   *)
(***************************************************************************)
\* Variant of CollectErrors that validates the first row only.
CollectErrorsFirstRowOnly(rs, k) ==
    IF k > Len(rs) \/ k > 1 THEN <<>>
    ELSE validate_row(rs[k], FirstRowNum + k - 1, SkuNames)

\* The validation loop: all_errors.extend(validate_row(row, idx, sku_names))
\* for idx, row in enumerate(rows, start=2), from list position k on.
RECURSIVE CollectErrors(_, _)
CollectErrors(rs, k) ==
    IF k > Len(rs) THEN <<>>
    ELSE validate_row(rs[k], FirstRowNum + k - 1, SkuNames)
         \o CollectErrors(rs, k + 1)

ErrorLines(errs) ==
    [i \in 1..Len(errs) |-> [level |-> "ERROR", tag |-> "validation", err |-> errs[i]]]

\* The row of the iteration with index idx.
Pos == idx - FirstRowNum + 1
InLoop == Pos <= Len(rows)

\* Variant of SummaryExit without the final "if failed" exit.
SummaryExitAlwaysReturn(nfailed) == "return"

\* raise SystemExit(...) if failed, else fall off the end of run()
SummaryExit(nfailed) == IF nfailed # 0 THEN "SystemExit" ELSE "return"

\* The dict json.dump writes to the results file.
RunSummary ==
    [total |-> Len(rows), succeeded |-> succeeded, failed |-> failed,
     orders |-> results]

\* The exit status of the process.
ExitStatus == IF exit_kind = "return" THEN 0 ELSE 1

RunInit ==
    /\ pc = "start"
    /\ file \in Files
    /\ dry_run \in BOOLEAN
    /\ rows = <<>>
    /\ all_errors = <<>>
    /\ idx = FirstRowNum
    /\ succeeded = 0
    /\ failed = 0
    /\ results = <<>>
    /\ requests = <<>>
    /\ log = <<>>
    /\ summaries = <<>>
    /\ exit_kind = "none"

RowIdle ==
    /\ row = RecA
    /\ row_num = FirstRowNum
    /\ errors = <<>>
    /\ built = [exc |-> "", payload |-> NoPayload]
    /\ fpc = "idle"

Init == RunInit /\ RowIdle

\* rows = read_orders_csv(csv_path, sku_names, logger)
ReadOrders ==
    /\ pc = "start"
    /\ rows' = read_orders_csv(file)
    /\ log' = Append(log, [level |-> "INFO", tag |-> "read", n |-> Len(rows')])
    /\ pc' = "rows_read"
    /\ UNCHANGED <<file, dry_run, all_errors, idx, succeeded, failed, results,
                   requests, summaries, exit_kind>>

\* Validation finds errors: log each, raise SystemExit.
ValidateFail ==
    /\ pc = "rows_read"
    /\ CollectErrors(rows, 1) # <<>>
    /\ all_errors' = CollectErrors(rows, 1)
    /\ log' = log \o ErrorLines(all_errors')
    /\ exit_kind' = "SystemExit"
    /\ pc' = "done"
    /\ UNCHANGED <<file, dry_run, rows, idx, succeeded, failed, results,
                   requests, summaries>>

\* Validation finds nothing: go on to the dry-run or the send loop.
ValidatePass ==
    /\ pc = "rows_read"
    /\ CollectErrors(rows, 1) = <<>>
    /\ all_errors' = <<>>
    /\ log' = Append(log, [level |-> "INFO", tag |-> "passed", n |-> Len(rows)])
    /\ idx' = FirstRowNum
    /\ pc' = IF dry_run THEN "dry_run" ELSE "sending"
    /\ UNCHANGED <<file, dry_run, rows, succeeded, failed, results,
                   requests, summaries, exit_kind>>

\* One iteration of the dry-run loop.
DryRunRow ==
    /\ pc = "dry_run"
    /\ InLoop
    /\ LET b == build_order_payload(rows[Pos], SkuNames, Tags)
       IN  IF b.exc # ""
           THEN /\ exit_kind' = "Traceback"
                /\ pc' = "done"
                /\ UNCHANGED <<idx, log>>
           ELSE /\ log' = Append(log,
                      [level |-> "INFO", tag |-> "DRY RUN", row |-> idx,
                       email |-> Strip(rows[Pos]["email"]),
                       n |-> Len(b.payload.contents)])
                /\ idx' = idx + 1
                /\ UNCHANGED <<pc, exit_kind>>
    /\ UNCHANGED <<file, dry_run, rows, all_errors, succeeded, failed, results,
                   requests, summaries>>

\* The dry-run loop is over: return.
DryRunDone ==
    /\ pc = "dry_run"
    /\ ~InLoop
    /\ log' = Append(log, [level |-> "INFO", tag |-> "dry run complete"])
    /\ exit_kind' = "return"
    /\ pc' = "done"
    /\ UNCHANGED <<file, dry_run, rows, all_errors, idx, succeeded, failed,
                   results, requests, summaries>>

\* One iteration of the send loop whose payload cannot be built.
SendRowBuildRaises ==
    /\ pc = "sending"
    /\ InLoop
    /\ build_order_payload(rows[Pos], SkuNames, Tags).exc # ""
    /\ exit_kind' = "Traceback"
    /\ pc' = "done"
    /\ UNCHANGED <<file, dry_run, rows, all_errors, idx, succeeded, failed,
                   results, requests, log, summaries>>

\* One iteration of the send loop: build, create_order, classify, record.
SendRow ==
    /\ pc = "sending"
    /\ InLoop
    /\ build_order_payload(rows[Pos], SkuNames, Tags).exc = ""
    /\ \E j \in 1..Len(Outcomes) :
          LET o == Outcomes[j]
              email == Strip(rows[Pos]["email"])
              payload == build_order_payload(rows[Pos], SkuNames, Tags).payload
              sending == [level |-> "INFO", tag |-> "sending", row |-> idx - 1,
                          of |-> Len(rows), email |-> email,
                          n |-> Len(payload.contents)]
          IN  /\ requests' = Append(requests, payload)
              /\ IF Handled(o)
                 THEN /\ results' = Append(results, RunResult(idx, email, o))
                      /\ succeeded' = SucceededAfter(succeeded, o)
                      /\ failed' = FailedAfter(failed, o)
                      /\ log' = log \o <<sending, ResultLine(idx, email, o)>>
                      /\ idx' = idx + 1
                      /\ UNCHANGED <<pc, exit_kind>>
                 ELSE /\ log' = Append(log, sending)
                      /\ exit_kind' = "Traceback"
                      /\ pc' = "done"
                      /\ UNCHANGED <<results, succeeded, failed, idx>>
    /\ UNCHANGED <<file, dry_run, rows, all_errors, summaries>>

\* After the send loop: the COMPLETE banner, the results file, the exit.
WriteSummary ==
    /\ pc = "sending"
    /\ ~InLoop
    /\ summaries' = Append(summaries, RunSummary)
    /\ log' = log \o <<[level |-> "INFO", tag |-> "COMPLETE",
                        succeeded |-> succeeded, failed |-> failed,
                        total |-> Len(rows)],
                       [level |-> "INFO", tag |-> "results written"]>>
    /\ exit_kind' = SummaryExit(failed)
    /\ pc' = "done"
    /\ UNCHANGED <<file, dry_run, rows, all_errors, idx, succeeded, failed,
                   results, requests>>

Next ==
    \/ (ReadOrders /\ UNCHANGED rowVars)
    \/ (ValidateFail /\ UNCHANGED rowVars)
    \/ (ValidatePass /\ UNCHANGED rowVars)
    \/ (DryRunRow /\ UNCHANGED rowVars)
    \/ (DryRunDone /\ UNCHANGED rowVars)
    \/ (SendRowBuildRaises /\ UNCHANGED rowVars)
    \/ (SendRow /\ UNCHANGED rowVars)
    \/ (WriteSummary /\ UNCHANGED rowVars)

Spec == Init /\ [][Next]_vars

(***************************************************************************)
(* validate_row and build_order_payload on one row.                        *)
(***************************************************************************)
RunIdle ==
    /\ pc = "idle"
    /\ file = <<>>
    /\ dry_run = FALSE
    /\ rows = <<>>
    /\ all_errors = <<>>
    /\ idx = FirstRowNum
    /\ succeeded = 0
    /\ failed = 0
    /\ results = <<>>
    /\ requests = <<>>
    /\ log = <<>>
    /\ summaries = <<>>
    /\ exit_kind = "none"

RowInit ==
    /\ RunIdle
    /\ row \in RowInputs
    /\ row_num \in RowNums
    /\ errors = <<>>
    /\ built = [exc |-> "", payload |-> NoPayload]
    /\ fpc = "start"

Validate ==
    /\ fpc = "start"
    /\ errors' = validate_row(row, row_num, SkuNames)
    /\ fpc' = "validated"
    /\ UNCHANGED <<row, row_num, built>>
    /\ UNCHANGED runVars

Build ==
    /\ fpc = "validated"
    /\ built' = build_order_payload(row, SkuNames, Tags)
    /\ fpc' = "built"
    /\ UNCHANGED <<row, row_num, errors>>
    /\ UNCHANGED runVars

RowNext == Validate \/ Build

SpecRow == RowInit /\ [][RowNext]_vars

(***************************************************************************)
(* Properties of run() (under Spec).                                       *)
(***************************************************************************)
\* Blank after trimming, said without Strip: None, or spaces only.
IsBlank(v) == v = None \/ \A i \in 1..Len(v) : v[i] = " "

KeptRows == read_orders_csv(file)

\* Some row read from the CSV yields a validation error.
InvalidFile ==
    LET kept == KeptRows
    IN  \E k \in 1..Len(kept) :
            validate_row(kept[k], FirstRowNum + k - 1, SkuNames) # <<>>

IsValidationLine(l) == l.tag = "validation"
IsDryRunLine(l) == l.tag = "DRY RUN"
IsFailedResult(r) == r.status = "failed"
IsSuccessResult(r) == r.status = "success"

\* Every error of every row read is on an ERROR line of the log.
EveryErrorLogged ==
    LET kept == KeptRows
    IN  /\ \A k \in 1..Len(kept) :
              \A e \in Range(validate_row(kept[k], FirstRowNum + k - 1, SkuNames)) :
                  \E i \in 1..Len(log) :
                      /\ log[i].tag = "validation"
                      /\ log[i].level = "ERROR"
                      /\ log[i].err = e
        /\ Len(SelectSeq(log, IsValidationLine)) = Len(all_errors)

\* C1: every row read is validated before any order-creation request; a
\* file with an invalid row, wherever the row is, never has a request
\* issued, and its run ends right after validation with every error logged,
\* a failure exit and no summary.
C1_ValidateAllBeforeSend ==
    LET invalid == InvalidFile
    IN  /\ (requests # <<>> => pc \in {"sending", "done"} /\ ~invalid)
        /\ (invalid => /\ pc \in {"start", "rows_read", "done"}
                       /\ requests = <<>>
                       /\ summaries = <<>>)
        /\ (invalid /\ pc = "done" => /\ exit_kind = "SystemExit"
                                      /\ ExitStatus = 1
                                      /\ all_errors # <<>>
                                      /\ EveryErrorLogged)

\* C1 witness: a run aborted by an invalid row that follows a valid one.
C1_Witness ==
    /\ pc = "done"
    /\ Len(rows) >= 2
    /\ validate_row(rows[1], FirstRowNum, SkuNames) = <<>>
    /\ validate_row(rows[Len(rows)], FirstRowNum + Len(rows) - 1, SkuNames) # <<>>
    /\ exit_kind = "SystemExit"
    /\ requests = <<>>

\* The send branch ran to the end of the rows.
SendBranch == ~dry_run /\ all_errors = <<>> /\ pc \in {"sending", "done"}
AllRowsProcessed == SendBranch /\ pc = "done" /\ Len(results) = Len(rows)

\* Every row read is one build_order_payload accepts.
AllRowsBuild ==
    \A k \in 1..Len(rows) : build_order_payload(rows[k], SkuNames, Tags).exc = ""

\* C2: in the send branch, whatever create_order does for a row (success,
\* HTTP error, transport failure), the row gets its RunResult and the run
\* goes on: every request issued has its RunResult, and the run ends only
\* with every row built and sent once, in file order.  (Files whose rows the
\* builder all accepts.)
C2_FailedSendNeverAborts ==
    SendBranch /\ AllRowsBuild =>
        /\ (pc = "sending" => Len(results) = Len(requests))
        /\ (pc = "done" =>
               /\ Len(requests) = Len(rows)
               /\ Len(results) = Len(rows)
               /\ \A k \in 1..Len(rows) :
                     /\ requests[k] = build_order_payload(rows[k], SkuNames, Tags).payload
                     /\ results[k].row = FirstRowNum + k - 1)

\* C3: once all rows are processed the summary is written exactly once and
\* then the process ends; the exit status is failure exactly when some
\* RunResult is failed; the summary is never written twice nor before the
\* loop is over.
C3_SummaryThenExit ==
    /\ Len(summaries) <= 1
    /\ (pc # "done" => summaries = <<>> /\ exit_kind = "none")
    /\ (AllRowsProcessed =>
           /\ Len(summaries) = 1
           /\ summaries[1].orders = results
           /\ (ExitStatus = 1 <=> SelectSeq(results, IsFailedResult) # <<>>))

\* C3 witness: a finished send run with a failed and a successful row.
C3_Witness ==
    /\ AllRowsProcessed
    /\ SelectSeq(results, IsFailedResult) # <<>>
    /\ SelectSeq(results, IsSuccessResult) # <<>>
    /\ Len(summaries) = 1
    /\ ExitStatus = 1

\* C4: a written summary has succeeded + failed = total = len(orders), total
\* being the number of rows read; after each iteration of the send loop
\* succeeded + failed = len(results) = rows processed so far.
C4_CountsAddUp ==
    /\ \A i \in 1..Len(summaries) :
          /\ summaries[i].succeeded + summaries[i].failed = summaries[i].total
          /\ summaries[i].total = Len(summaries[i].orders)
          /\ summaries[i].total = Len(KeptRows)
          /\ summaries[i].failed = Len(SelectSeq(summaries[i].orders, IsFailedResult))
    /\ (SendBranch /\ pc = "sending" =>
           /\ succeeded + failed = Len(results)
           /\ Len(results) = idx - FirstRowNum)

\* C4 witness: a summary over three rows, of which one succeeded, one was
\* rejected by the server and one could not be reached.
C4_Witness ==
    /\ Len(summaries) = 1
    /\ summaries[1].total >= 3
    /\ summaries[1].succeeded >= 1
    /\ \E i, j \in 1..Len(results) :
          /\ results[i].status = "failed" /\ "http_status" \in DOMAIN results[i]
          /\ results[j].status = "failed" /\ "http_status" \notin DOMAIN results[j]

\* C5: a dry run whose rows all pass validation never calls create_order,
\* logs one "would send" line per row (row index, email, content-line count)
\* in file order, writes no summary and exits with status success.
C5_DryRunReportsEveryRow ==
    dry_run =>
        /\ requests = <<>>
        /\ summaries = <<>>
        /\ (pc = "done" /\ ~InvalidFile =>
               /\ exit_kind = "return"
               /\ ExitStatus = 0
               /\ Len(SelectSeq(log, IsDryRunLine)) = Len(rows)
               /\ \A k \in 1..Len(rows) :
                     LET l == SelectSeq(log, IsDryRunLine)[k]
                     IN  /\ l.row = FirstRowNum + k - 1
                         /\ l.email = Strip(rows[k]["email"])
                         /\ l.n = Len(build_order_payload(rows[k], SkuNames, Tags)
                                          .payload.contents))

\* The file row numbers (header = row 1) of the records read_orders_csv
\* keeps, from record i on.
RECURSIVE KeptPositions(_, _)
KeptPositions(f, i) ==
    IF i > Len(f) THEN <<>>
    ELSE (IF KeepRecord(f[i]) THEN <<i + 1>> ELSE <<>>) \o KeptPositions(f, i + 1)

RECURSIVE ErrorsAt(_, _, _)
ErrorsAt(rs, positions, k) ==
    IF k > Len(rs) THEN <<>>
    ELSE validate_row(rs[k], positions[k], SkuNames) \o ErrorsAt(rs, positions, k + 1)

\* C10: the row number in validation errors, dry-run lines and RunResults is
\* the row's position in the CSV file, the header being row 1, also when
\* skipped blank-email records precede it.
C10_RowNumberIsFilePosition ==
    LET positions == KeptPositions(file, 1)
        dry == SelectSeq(log, IsDryRunLine)
    IN  /\ (pc = "done" /\ all_errors # <<>> =>
               all_errors = ErrorsAt(KeptRows, positions, 1))
        /\ \A k \in 1..Len(results) : results[k].row = positions[k]
        /\ \A k \in 1..Len(dry) : dry[k].row = positions[k]

(***************************************************************************)
(* Properties of validate_row and build_order_payload (under SpecRow).     *)
(***************************************************************************)
IsMissingError(e) == e.kind = "missing"
IsQuantityError(e) == e.kind # "missing"

MissingFields == {c \in RequiredSet : IsBlank(row[c])}

\* The row with every required address field populated.
Populated(r) == [c \in DOMAIN r |-> IF c \in RequiredSet THEN <<"a">> ELSE r[c]]

\* The cell holds a positive integer.
PositiveCell(v) == v # None /\ IsInt(v) /\ IntVal(v) > 0

\* The cell is blank or holds a non-negative integer.
AcceptableCell(v) == IsBlank(v) \/ (IsInt(v) /\ IntVal(v) >= 0)

\* C6: a row for which validate_row returns no error is one that
\* build_order_payload accepts, with a non-empty contents list, whatever the
\* SKU cells the validator let through.
C6_ValidRowBuilds ==
    fpc = "built" /\ errors = <<>> =>
        /\ built.exc = ""
        /\ built.payload.contents # <<>>

\* C7: every required address field populated and at least one positive
\* integer SKU quantity give an empty error list.
C7_PopulatedRowIsValid ==
    /\ fpc # "start"
    /\ MissingFields = {}
    /\ \E sku \in SkuSet : PositiveCell(row[sku])
    => errors = <<>>

\* C7 (amended): every required address field populated, at least one
\* positive integer SKU quantity and every SKU cell blank or a non-negative
\* integer give an empty error list.
C7_Amended ==
    /\ fpc # "start"
    /\ MissingFields = {}
    /\ \E sku \in SkuSet : PositiveCell(row[sku])
    /\ \A sku \in SkuSet : AcceptableCell(row[sku])
    => errors = <<>>

\* C7 witness: a validated row with a positive cell beside a zero cell.
C7_Witness ==
    /\ fpc = "validated"
    /\ MissingFields = {}
    /\ \E sku \in SkuSet : PositiveCell(row[sku]) /\ row[sku] # Strip(row[sku])
    /\ \E sku \in SkuSet : row[sku] = <<"0">>
    /\ \A sku \in SkuSet : AcceptableCell(row[sku])
    /\ errors = <<>>

\* C8: the error list holds exactly one missing-field message per required
\* field that is blank after trimming, each with the given row number and
\* the field; the checks do not short-circuit one another, and the quantity
\* errors are those the row would get with its address complete.
C8_OneMessagePerMissingField ==
    fpc # "start" =>
        /\ \A c \in RequiredSet :
              Len(SelectSeq(errors, LAMBDA e : e.kind = "missing" /\ e.col = c))
                  = IF c \in MissingFields THEN 1 ELSE 0
        /\ \A i \in 1..Len(errors) : errors[i].row = row_num
        /\ Len(SelectSeq(errors, IsMissingError)) = Cardinality(MissingFields)
        /\ SelectSeq(errors, IsQuantityError)
               = validate_row(Populated(row), row_num, SkuNames)

\* C8 witness: a validated row missing several required fields, one of them
\* whitespace-only, that also has a quantity error.
C8_Witness ==
    /\ fpc = "validated"
    /\ Cardinality(MissingFields) >= 3
    /\ \E c \in MissingFields : row[c] = <<" ">>
    /\ \E c \in MissingFields : row[c] = None
    /\ \E i \in 1..Len(errors) : errors[i].kind = "negative"
    /\ Len(SelectSeq(errors, IsMissingError)) = Cardinality(MissingFields)

\* The configured SKUs whose parsed quantity is positive, in configured order.
PositiveSkus == SelectSeq(SkuNames, LAMBDA sku : Qty(row, sku) > 0)

\* C9: an accepted row's contents hold one entry per configured SKU with
\* parsed quantity > 0, in configured order, and none with quantity <= 0;
\* the address has last_name / line_2 exactly when the source value is
\* non-blank after trimming, and then with the trimmed value.
C9_ContentsAndOptionalKeys ==
    fpc = "built" /\ built.exc = "" =>
        LET p == built.payload
        IN  /\ Len(p.contents) = Len(PositiveSkus)
            /\ \A i \in 1..Len(p.contents) :
                  /\ p.contents[i].sku = PositiveSkus[i]
                  /\ p.contents[i].quantity = Qty(row, PositiveSkus[i])
                  /\ p.contents[i].quantity > 0
            /\ \A k \in OptionalAddressKeys :
                  /\ k \in DOMAIN p.address <=> ~IsBlank(row[k])
                  /\ k \in DOMAIN p.address => p.address[k] # <<>>

\* C9 witness: an accepted row with a zero cell, a positive cell, a
\* whitespace-only last_name and a line_2 to trim.
C9_Witness ==
    /\ fpc = "built"
    /\ built.exc = ""
    /\ \E sku \in SkuSet : row[sku] = <<"0">>
    /\ Len(built.payload.contents) = 1
    /\ row["last_name"] = <<" ">>
    /\ row["line_2"] = <<" ", "b">>
    /\ "last_name" \notin DOMAIN built.payload.address
    /\ built.payload.address["line_2"] = <<"b">>

====
